---- MODULE Spec2Model ----
(***************************************************************************)
(* Model of onvif-bot.                                                     *)
(*                                                                         *)
(* Spec: the capture ring buffer (VideoStream.stream_capture running in    *)
(* its own thread), the clip extractor (VideoStream.video_snapshot, a      *)
(* coroutine on the event loop) and its two callers, CameraInstance.run    *)
(* and TelegramBot.grabvideo, for one media-enabled camera.                *)
(* SpecRetention, SpecCapture, FairSpecCapture: the ingest thread alone.   *)
(* SpecCameras: the sessions of all configured cameras side by side, with  *)
(* the bot's commands, main() and the __main__ block.                      *)
(* SpecManager: CustomPullPointManager._start against one device.          *)
(*                                                                         *)
(* Packets are objects: the heap `packets` holds the mutable fields of     *)
(* every usable packet the demuxer delivered, in arrival order; the ring   *)
(* buffer, latest_keyframe and the extractor's list(self.buffer.queue)     *)
(* hold references (heap indices), so that an in-place write through one   *)
(* reference is seen through the others.                                   *)
(***************************************************************************)
EXTENDS Integers, Sequences, FiniteSets, TLC

\* ---- bounds of the model ------------------------------------------------
MaxUnits == 2          \* packets the demuxer delivers in one behaviour
MaxDur == 1            \* packet.duration ranges over 0..MaxDur
MaxBatch == 2          \* notifications in one PullMessages batch
MaxNow == 2            \* the clock runs over 0..MaxNow minutes
MaxRenewals == 2       \* scheduled renewals of one subscription

\* ---- program constants --------------------------------------------------
DefaultQueueSize == 200
RetentionSeconds == 5
MaxPlausibleFps == 40
SubscriptionTime == 10 \* SUBSCRIPTION_TIME, in minutes

NoneTs == 0 - 1        \* Python None in an integer field (dts, pts)
NoRef == 0             \* Python None in a reference field
NoRate == << 0, 0 >>   \* Python None where a Fraction is expected

\* rtsp.streams.video[0].average_rate, a Fraction <<num, den>>
Rates == { <<1, 5>>, <<2, 5>>, <<40, 1>> }

\* queue_size as stream_capture computes it from fps
QueueSize(fps) ==
    IF fps[1] > 0 /\ fps[1] < MaxPlausibleFps * fps[2]
    THEN (fps[1] * RetentionSeconds) \div fps[2]
    ELSE DefaultQueueSize

\* timestamp the camera put on the n-th packet it sent
SrcTs(n) == 100 + n

Durations == 0..MaxDur

\* a packet as rtsp.demux yields it
Packet(n, usable, key, dur) ==
    [ is_keyframe |-> key,
      dts |-> IF usable THEN SrcTs(n) ELSE NoneTs,
      pts |-> IF usable THEN SrcTs(n) ELSE NoneTs,
      duration |-> dur,
      stream |-> "in" ]

NoPacket == Packet(0, FALSE, FALSE, 0)

VARIABLES
    buffer,             \* self.buffer: Queue of packet references, head first
    packets,            \* heap: the usable packets received so far, in order
    latest_keyframe,    \* self.latest_keyframe: reference or NoRef
    in_stream,          \* self.in_stream: NoRef until the first connection
    video_in_progress,  \* self.video_in_progress
    stop_event,         \* VideoStream.stop_event (threading.Event)
    queue_size,         \* stream_capture's local queue_size
    fitted,             \* the last pass of the inner while loop on this
                        \* connection ended with video_in_progress False
    ipc,                \* position of the ingest thread in stream_capture
    cur,                \* stream_capture's loop variable packet
    nrecv,              \* packets delivered by the demuxer so far
    tpc,                \* position of each event-loop task
    cancel_pending,     \* task.cancel() was called and not yet delivered
    sigint,             \* shutdown_handler has run
    session_stop_event, \* CameraInstance.stop_event (asyncio.Event)
    snap,               \* video_snapshot's list(self.buffer.queue)
    muxed,              \* packets handed to video_output.mux, as handed
    mux_errors,         \* exceptions of video_output.mux that were logged
    result,             \* value video_snapshot returned to its caller
    average_rate,       \* stream_capture's local fps: the average_rate read
                        \* on the last successful av.open, NoRate for None
    cameras,            \* the CameraInstance of every configured camera,
                        \* with its run task and its VideoStream
    handler,            \* the TelegramBot command handler being served
    main_task,          \* position of main()
    process,            \* position of the __main__ block
    signalled,          \* shutdown_handler has run (SIGINT)
    manager             \* the CustomPullPointManager of one session, with
                        \* its device and the clock

ingestVars == << buffer, latest_keyframe, in_stream, queue_size, fitted,
                 ipc, cur, nrecv >>
localVars == << snap, muxed, mux_errors >>
taskVars == << tpc, cancel_pending, sigint, session_stop_event, result >>
\* the capture buffer of one VideoStream, its extractor and its callers
streamVars == << buffer, packets, latest_keyframe, in_stream,
                 video_in_progress, stop_event, queue_size, fitted, ipc, cur,
                 nrecv, tpc, cancel_pending, sigint, session_stop_event,
                 snap, muxed, mux_errors, result, average_rate >>
\* the camera sessions side by side, the bot's commands and the process
camVars == << cameras, handler, main_task, process, signalled >>
extVars == << camVars, manager >>
otherVars == << average_rate, extVars >>
vars == << buffer, packets, latest_keyframe, in_stream, video_in_progress,
           stop_event, queue_size, fitted, ipc, cur, nrecv, tpc,
           cancel_pending, sigint, session_stop_event, snap, muxed,
           mux_errors, result, otherVars >>

\* the coroutines that call video_snapshot on one VideoStream
Tasks == { "run", "grabvideo" }

\* positions inside video_snapshot, after the flag was set
SnapshotPcs == { "sleep", "write", "release" }
\* positions at which a task is suspended in an await
AwaitPcs == { "poll", "notify", "sleep", "send", "unsub" }
\* positions in synchronous code: the task occupies the event loop
SyncPcs == { "write", "release", "ret", "stopping", "join" }

\* cam_cfg: the configured cameras, in the order of the configuration
CameraNames == << "cam1", "cam2" >>
Cams == { CameraNames[i] : i \in 1..Len(CameraNames) }

\* HasStream creating a VideoStream for every camera
HasStreamAlways(nomedia) == TRUE

\* CameraInstance.__init__: a VideoStream is created and registered with
\* the bot if cam_cfg[camera_id].nomedia is False
HasStream(nomedia) == nomedia = FALSE

\* CameraInstance.__init__ and VideoStream.__init__ for a camera whose
\* configuration says nomedia: the ingest thread is started on construction
NewCamera(nomedia) ==
    [ nomedia |-> nomedia,
      rtsp_stream |-> HasStream(nomedia),
      thread |-> IF HasStream(nomedia) THEN "running" ELSE "none",
      stream_stop |-> FALSE,
      in_progress |-> FALSE,
      stop_event |-> FALSE,
      pc |-> "setup",
      cancel |-> FALSE,
      messages |-> << >> ]

\* no command is being served
NoHandler == [ cmd |-> "none", i |-> 0, at |-> "idle" ]

\* main() has created the tasks and awaits asyncio.gather; configs are the
\* values of nomedia the configuration may give the cameras
InitCameras(configs) ==
    /\ cameras \in { [c \in Cams |-> NewCamera(cfg[c])] : cfg \in configs }
    /\ handler = NoHandler
    /\ main_task = "gather"
    /\ process = "running"
    /\ signalled = FALSE

\* one VideoStream after construction, its callers not yet started
InitStream ==
    /\ buffer = << >>
    /\ packets = << >>
    /\ latest_keyframe = NoRef
    /\ in_stream = NoRef
    /\ video_in_progress = FALSE
    /\ stop_event = FALSE
    /\ queue_size = 0
    /\ fitted = FALSE
    /\ ipc = "top"
    /\ cur = NoPacket
    /\ nrecv = 0
    /\ tpc = [t \in Tasks |-> IF t = "run" THEN "poll" ELSE "idle"]
    /\ cancel_pending = [t \in Tasks |-> FALSE]
    /\ sigint = FALSE
    /\ session_stop_event = FALSE
    /\ snap = [t \in Tasks |-> << >>]
    /\ muxed = [t \in Tasks |-> << >>]
    /\ mux_errors = [t \in Tasks |-> 0]
    /\ result = [t \in Tasks |-> "unset"]
    /\ average_rate = NoRate

\* minutes of lease the devices grant on a request for SubscriptionTime as
\* a relative duration: the full duration, half of it, less, or none
Leases == { 0, 4, 5, SubscriptionTime }

\* the manager as run constructs it, before manager.start(); lease is what
\* its device grants on a relative request
NewManager(lease) ==
    [ pc |-> "unstarted",
      lease |-> lease,
      broken_relative |-> FALSE,
      requests |-> << >>,
      result |-> [ CurrentTime |-> 0, TerminationTime |-> 0 ],
      now |-> 0 ]

InitManager(leases) == manager \in { NewManager(l) : l \in leases }

\* the state after construction, every camera being media-enabled and the
\* device granting the lease it is asked for
Init ==
    /\ InitStream
    /\ InitCameras({ [c \in Cams |-> FALSE] })
    /\ InitManager({ SubscriptionTime })

\* ---- the ingest thread: VideoStream.stream_capture ---------------------

\* while not self.stop_event.is_set(): av.open succeeds; fps, queue_size and
\* self.in_stream are set
Connect(fps) ==
    /\ ipc = "top"
    /\ ~stop_event
    /\ fps # NoRate
    /\ average_rate' = fps
    /\ queue_size' = QueueSize(fps)
    /\ in_stream' = 1
    /\ fitted' = FALSE
    /\ ipc' = "demux"
    /\ UNCHANGED << extVars, buffer, packets, latest_keyframe,
                    video_in_progress,
                    stop_event, cur, nrecv, taskVars, localVars >>

\* av.open succeeds on a stream whose average_rate is None (the container
\* reports no frame rate): fps > 0 raises TypeError before queue_size and
\* self.in_stream are assigned: except Exception
ConnectRateUnknown ==
    /\ ipc = "top"
    /\ ~stop_event
    /\ average_rate' = NoRate
    /\ ipc' = "backoff"
    /\ UNCHANGED << extVars, buffer, packets, latest_keyframe, in_stream,
                    video_in_progress, stop_event, queue_size, fitted, cur,
                    nrecv, taskVars, localVars >>

\* av.open raises: except Exception
ConnectFail ==
    /\ ipc = "top"
    /\ ~stop_event
    /\ ipc' = "backoff"
    /\ UNCHANGED << otherVars, buffer, packets, latest_keyframe, in_stream,
                    video_in_progress, stop_event, queue_size, fitted, cur,
                    nrecv, taskVars, localVars >>

\* the while test finds stop_event set: stream_capture returns
CaptureExit ==
    /\ ipc = "top"
    /\ stop_event
    /\ ipc' = "exit"
    /\ UNCHANGED << otherVars, buffer, packets, latest_keyframe, in_stream,
                    video_in_progress, stop_event, queue_size, fitted, cur,
                    nrecv, taskVars, localVars >>

\* time.sleep(5) returns
Backoff ==
    /\ ipc = "backoff"
    /\ ipc' = "top"
    /\ UNCHANGED << otherVars, buffer, packets, latest_keyframe, in_stream,
                    video_in_progress, stop_event, queue_size, fitted, cur,
                    nrecv, taskVars, localVars >>

\* rtsp.demux is exhausted: the for loop ends, back to the while test
StreamEnd ==
    /\ ipc = "demux"
    /\ ipc' = "top"
    /\ UNCHANGED << otherVars, buffer, packets, latest_keyframe, in_stream,
                    video_in_progress, stop_event, queue_size, fitted, cur,
                    nrecv, taskVars, localVars >>

\* rtsp.demux raises (timeout, connection lost): except Exception
DemuxError ==
    /\ ipc = "demux"
    /\ ipc' = "backoff"
    /\ UNCHANGED << otherVars, buffer, packets, latest_keyframe, in_stream,
                    video_in_progress, stop_event, queue_size, fitted, cur,
                    nrecv, taskVars, localVars >>

\* MustEvict with > for >=
MustEvictOffByOne(q, size, in_progress) ==
    Len(q) > size /\ in_progress = FALSE

\* the condition of the inner while loop
MustEvict(q, size, in_progress) ==
    Len(q) >= size /\ in_progress = FALSE

\* Queue.get: removes and returns the head
QueueGet(q) == Tail(q)

\* QueuePut adding at the head
QueuePutFront(q, ref) == << ref >> \o q

\* Queue.put: adds at the tail
QueuePut(q, ref) == Append(q, ref)

\* the body of the for loop for packet pk, from the test of the inner while
\* loop on, the queue being q: either the test is true and the thread goes
\* on to self.buffer.get(), or it is false and the packet is discarded
\* (packet.dts is None: continue) or stored (latest_keyframe, buffer.put,
\* the stop_event test)
LoopBody(pk, q) ==
    IF MustEvict(q, queue_size, video_in_progress)
    THEN /\ buffer' = q
         /\ cur' = pk
         /\ ipc' = "get"
         /\ UNCHANGED << packets, latest_keyframe, fitted >>
    ELSE /\ fitted' = (video_in_progress = FALSE)
         /\ cur' = NoPacket
         /\ IF pk.dts = NoneTs
            THEN /\ buffer' = q
                 /\ ipc' = "demux"
                 /\ UNCHANGED << packets, latest_keyframe >>
            ELSE /\ packets' = Append(packets, pk)
                 /\ latest_keyframe' =
                      IF pk.is_keyframe THEN Len(packets) + 1
                      ELSE latest_keyframe
                 /\ buffer' = QueuePut(q, Len(packets) + 1)
                 /\ ipc' = IF stop_event THEN "top" ELSE "demux"

\* rtsp.demux yields the next packet
Demux(pk) ==
    /\ ipc = "demux"
    /\ nrecv < MaxUnits
    /\ nrecv' = nrecv + 1
    /\ LoopBody(pk, buffer)
    /\ UNCHANGED << otherVars, in_stream, video_in_progress, stop_event,
                    queue_size,
                    taskVars, localVars >>

\* self.buffer.get(), which blocks while the queue is empty, then the test
\* of the inner while loop again
EvictGet ==
    /\ ipc = "get"
    /\ Len(buffer) > 0
    /\ LoopBody(cur, QueueGet(buffer))
    /\ UNCHANGED << otherVars, in_stream, video_in_progress, stop_event,
                    queue_size,
                    nrecv, taskVars, localVars >>

\* the ingest thread on streams of known rate (a stream of unknown rate never
\* gets past its connection: ConnectRateUnknown, under SpecCapture)
Ingest ==
    \/ \E fps \in Rates : Connect(fps)
    \/ ConnectFail
    \/ CaptureExit
    \/ Backoff
    \/ \E key \in BOOLEAN, dur \in Durations :
          Demux(Packet(nrecv + 1, TRUE, key, dur))
    \/ Demux(Packet(nrecv + 1, FALSE, FALSE, 0))
    \/ StreamEnd
    \/ DemuxError
    \/ EvictGet

\* ---- the event loop: one callback runs at a time -----------------------

\* task t may take a step: no other task is in the middle of synchronous code
LoopFree(t) == \A u \in Tasks \ {t} : tpc[u] \notin SyncPcs

\* where a task continues after an exception left video_snapshot or a send:
\* run's except Exception returns to the while loop, a command handler ends
AfterException(t) == IF t = "run" THEN "poll" ELSE "idle"

\* the locals of video_snapshot go out of scope
DropLocals(t) ==
    /\ snap' = [snap EXCEPT ![t] = << >>]
    /\ muxed' = [muxed EXCEPT ![t] = << >>]
    /\ mux_errors' = [mux_errors EXCEPT ![t] = 0]

\* ---- VideoStream.video_snapshot -----------------------------------------

\* AlreadyInProgress without the test
AlreadyInProgressNever(in_progress) == FALSE

\* if self.video_in_progress is True: return
AlreadyInProgress(in_progress) == in_progress = TRUE

\* SnapshotEnter whose early return clears the flag
SnapshotEnterClears(t) ==
    IF AlreadyInProgress(video_in_progress)
    THEN /\ tpc' = [tpc EXCEPT ![t] = "ret"]
         /\ result' = [result EXCEPT ![t] = "none"]
         /\ video_in_progress' = FALSE
    ELSE /\ video_in_progress' = TRUE
         /\ tpc' = [tpc EXCEPT ![t] = "sleep"]
         /\ UNCHANGED result

\* the entry of video_snapshot up to its first await
SnapshotEnter(t) ==
    IF AlreadyInProgress(video_in_progress)
    THEN /\ tpc' = [tpc EXCEPT ![t] = "ret"]
         /\ result' = [result EXCEPT ![t] = "none"]
         /\ UNCHANGED video_in_progress
    ELSE /\ video_in_progress' = TRUE
         /\ tpc' = [tpc EXCEPT ![t] = "sleep"]
         /\ UNCHANGED result

\* await asyncio.sleep(10) returns
SleepDone(t) ==
    /\ tpc[t] = "sleep"
    /\ ~cancel_pending[t]
    /\ LoopFree(t)
    /\ tpc' = [tpc EXCEPT ![t] = "write"]
    /\ UNCHANGED << otherVars, buffer, packets, latest_keyframe, in_stream,
                    video_in_progress, stop_event, queue_size, fitted, ipc,
                    cur, nrecv, cancel_pending, sigint, session_stop_event,
                    result, localVars >>

\* if self.buffer: a Queue object defines neither __bool__ nor __len__
BufferTruthy(q) == TRUE

\* Skipped that never leaves the skipping mode
SkippedEveryNonKey(first, p) == ~p.is_keyframe

\* the for loop skips packets until the first keyframe
Skipped(first, p) == first /\ ~p.is_keyframe

\* NextPtsRef with = for +=
NextPtsRefAssigned(ref, p) == p.duration

\* pts_ref += packet.duration
NextPtsRef(ref, p) == ref + p.duration

\* packet.pts = pts_ref; packet.dts = packet.pts; packet.stream = ostream
Rewritten(p, ref) == [p EXCEPT !.pts = ref, !.dts = ref, !.stream = "out"]

\* for packet in list(self.buffer.queue): ..., from position i on, with the
\* locals pts_ref = ref and first_packet = first; heap is the packet store
\* the loop writes through, out the packets handed to video_output.mux
RECURSIVE MuxLoop(_, _, _, _, _, _)
MuxLoop(list, i, ref, first, heap, out) ==
    IF i > Len(list)
    THEN [ packets |-> heap, muxed |-> out ]
    ELSE LET r == list[i]
             p == heap[r]
             nref == NextPtsRef(ref, p)
             q == Rewritten(p, nref)
         IN IF Skipped(first, p)
            THEN MuxLoop(list, i + 1, ref, first, heap, out)
            ELSE MuxLoop(list, i + 1, nref, FALSE,
                         [heap EXCEPT ![r] = q],
                         Append(out, [ ref |-> r, pts |-> q.pts,
                                       dts |-> q.dts ]))

\* the synchronous part of video_snapshot after the sleep: av.open,
\* add_stream_from_template(template=self.in_stream), the for loop over
\* list(self.buffer.queue), video_output.close(), video_snapshot = video_file;
\* video_output.mux raised, and was logged, for errors of the packets
WriteClip(t, errors) ==
    /\ tpc[t] = "write"
    /\ in_stream # NoRef
    /\ IF BufferTruthy(buffer)
       THEN LET done == MuxLoop(buffer, 1, 0, TRUE, packets, << >>)
            IN /\ errors <= Len(done.muxed)
               /\ snap' = [snap EXCEPT ![t] = buffer]
               /\ packets' = done.packets
               /\ muxed' = [muxed EXCEPT ![t] = done.muxed]
               /\ mux_errors' = [mux_errors EXCEPT ![t] = errors]
               /\ result' = [result EXCEPT ![t] = "clip"]
       ELSE /\ errors = 0
            /\ result' = [result EXCEPT ![t] = "none"]
            /\ UNCHANGED << packets, localVars >>
    /\ tpc' = [tpc EXCEPT ![t] = "release"]
    /\ UNCHANGED << otherVars, buffer, latest_keyframe, in_stream,
                    video_in_progress,
                    stop_event, queue_size, fitted, ipc, cur, nrecv,
                    cancel_pending, sigint, session_stop_event >>

\* opening raises: in_stream is still None (no connection yet), or av.open
\* fails; the exception leaves video_snapshot
OpenRaises(t) ==
    /\ tpc[t] = "write"
    /\ tpc' = [tpc EXCEPT ![t] = AfterException(t)]
    /\ UNCHANGED << otherVars, buffer, packets, latest_keyframe, in_stream,
                    video_in_progress, stop_event, queue_size, fitted, ipc,
                    cur, nrecv, cancel_pending, sigint, session_stop_event,
                    result, localVars >>

\* the for loop has run and video_output.close() raises; the exception
\* leaves video_snapshot
CloseRaises(t) ==
    /\ tpc[t] = "write"
    /\ in_stream # NoRef
    /\ BufferTruthy(buffer)
    /\ packets' = MuxLoop(buffer, 1, 0, TRUE, packets, << >>).packets
    /\ tpc' = [tpc EXCEPT ![t] = AfterException(t)]
    /\ UNCHANGED << otherVars, buffer, latest_keyframe, in_stream,
                    video_in_progress,
                    stop_event, queue_size, fitted, ipc, cur, nrecv,
                    cancel_pending, sigint, session_stop_event, result,
                    localVars >>

\* self.video_in_progress = False; return video_snapshot
Release(t) ==
    /\ tpc[t] = "release"
    /\ video_in_progress' = FALSE
    /\ tpc' = [tpc EXCEPT ![t] = "ret"]
    /\ DropLocals(t)
    /\ UNCHANGED << otherVars, buffer, packets, latest_keyframe, in_stream,
                    stop_event,
                    queue_size, fitted, ipc, cur, nrecv, cancel_pending,
                    sigint, session_stop_event, result >>

\* ---- CameraInstance.run --------------------------------------------------

Values == { "true", "false" }

\* every batch PullMessages can return, up to MaxBatch notifications
RECURSIVE BatchesOfLen(_)
BatchesOfLen(n) ==
    IF n = 0 THEN { << >> }
    ELSE { Append(b, v) : b \in BatchesOfLen(n - 1), v \in Values }

Batches == UNION { BatchesOfLen(n) : n \in 0..MaxBatch }

\* mess_tree after the for loop over messages.NotificationMessage
MessTree(batch) == IF Len(batch) = 0 THEN "" ELSE batch[Len(batch)]

\* await pullpoint.PullMessages(...) returns a batch
PullMessages(batch) ==
    /\ tpc["run"] = "poll"
    /\ ~cancel_pending["run"]
    /\ LoopFree("run")
    /\ tpc' = [tpc EXCEPT !["run"] =
                 IF MessTree(batch) = "true" THEN "notify" ELSE "poll"]
    /\ UNCHANGED << otherVars, buffer, packets, latest_keyframe, in_stream,
                    video_in_progress, stop_event, queue_size, fitted, ipc,
                    cur, nrecv, cancel_pending, sigint, session_stop_event,
                    result, localVars >>

\* await self.bot.send_message(...) returns; rtsp_stream is not None, so
\* video_snapshot is called
SendMessageDone ==
    /\ tpc["run"] = "notify"
    /\ ~cancel_pending["run"]
    /\ LoopFree("run")
    /\ SnapshotEnter("run")
    /\ UNCHANGED << otherVars, buffer, packets, latest_keyframe, in_stream,
                    stop_event,
                    queue_size, fitted, ipc, cur, nrecv, cancel_pending,
                    sigint, session_stop_event, localVars >>

\* await self.bot.send_message(...) raises: except Exception, next cycle
SendMessageRaises ==
    /\ tpc["run"] = "notify"
    /\ ~cancel_pending["run"]
    /\ LoopFree("run")
    /\ tpc' = [tpc EXCEPT !["run"] = "poll"]
    /\ UNCHANGED << otherVars, buffer, packets, latest_keyframe, in_stream,
                    video_in_progress, stop_event, queue_size, fitted, ipc,
                    cur, nrecv, cancel_pending, sigint, session_stop_event,
                    result, localVars >>

\* await self.bot.send_video(await self.rtsp_stream.video_snapshot()):
\* whatever video_snapshot returned is passed on
RunSendVideo ==
    /\ tpc["run"] = "ret"
    /\ tpc' = [tpc EXCEPT !["run"] = "send"]
    /\ UNCHANGED << otherVars, buffer, packets, latest_keyframe, in_stream,
                    video_in_progress, stop_event, queue_size, fitted, ipc,
                    cur, nrecv, cancel_pending, sigint, session_stop_event,
                    result, localVars >>

\* ---- TelegramBot.grabvideo ----------------------------------------------

\* the grabvideo command arrives: video = await stream.video_snapshot()
GrabVideo ==
    /\ tpc["grabvideo"] = "idle"
    /\ ~cancel_pending["grabvideo"]
    /\ LoopFree("grabvideo")
    /\ SnapshotEnter("grabvideo")
    /\ UNCHANGED << otherVars, buffer, packets, latest_keyframe, in_stream,
                    stop_event,
                    queue_size, fitted, ipc, cur, nrecv, cancel_pending,
                    sigint, session_stop_event, localVars >>

\* if video is not None: await self.send_video(video)
GrabSendVideo ==
    /\ tpc["grabvideo"] = "ret"
    /\ IF result["grabvideo"] # "none"
       THEN /\ tpc' = [tpc EXCEPT !["grabvideo"] = "send"]
            /\ UNCHANGED result
       ELSE /\ tpc' = [tpc EXCEPT !["grabvideo"] = "idle"]
            /\ result' = [result EXCEPT !["grabvideo"] = "unset"]
    /\ UNCHANGED << otherVars, buffer, packets, latest_keyframe, in_stream,
                    video_in_progress, stop_event, queue_size, fitted, ipc,
                    cur, nrecv, cancel_pending, sigint, session_stop_event,
                    localVars >>

\* ---- both callers -------------------------------------------------------

\* await send_video(...) returns or raises: run starts its next poll cycle
\* (an exception is caught by except Exception), the command handler ends
SendVideoDone(t) ==
    /\ tpc[t] = "send"
    /\ ~cancel_pending[t]
    /\ LoopFree(t)
    /\ tpc' = [tpc EXCEPT ![t] = AfterException(t)]
    /\ result' = [result EXCEPT ![t] = "unset"]
    /\ UNCHANGED << otherVars, buffer, packets, latest_keyframe, in_stream,
                    video_in_progress, stop_event, queue_size, fitted, ipc,
                    cur, nrecv, cancel_pending, sigint, session_stop_event,
                    localVars >>

\* ---- shutdown ------------------------------------------------------------

\* shutdown_handler: task.cancel() for every task of the loop
Shutdown ==
    /\ ~sigint
    /\ sigint' = TRUE
    /\ cancel_pending' =
         [t \in Tasks |-> tpc[t] \notin { "ended", "cancelled" }]
    /\ UNCHANGED << otherVars, buffer, packets, latest_keyframe, in_stream,
                    video_in_progress, stop_event, queue_size, fitted, ipc,
                    cur, nrecv, tpc, session_stop_event, result, localVars >>

\* CancelledError is raised at the await the task is suspended in.  In run
\* the awaits of the poll cycle are inside the try: except
\* asyncio.CancelledError (await manager.shutdown() is in the handler
\* itself).  The command handler has no handler for it: the task ends.
Cancelled(t) ==
    /\ cancel_pending[t]
    /\ tpc[t] \in (AwaitPcs \ { "unsub" }) \cup { "idle" }
    /\ LoopFree(t)
    /\ cancel_pending' = [cancel_pending EXCEPT ![t] = FALSE]
    /\ tpc' = [tpc EXCEPT ![t] = IF t = "run" THEN "stopping" ELSE "cancelled"]
    /\ result' = [result EXCEPT ![t] = "unset"]
    /\ UNCHANGED << otherVars, buffer, packets, latest_keyframe, in_stream,
                    video_in_progress, stop_event, queue_size, fitted, ipc,
                    cur, nrecv, sigint, session_stop_event, localVars >>

\* self.stop_event.set(); self.rtsp_stream.stop() sets VideoStream.stop_event
StopStream ==
    /\ tpc["run"] = "stopping"
    /\ session_stop_event' = TRUE
    /\ stop_event' = TRUE
    /\ tpc' = [tpc EXCEPT !["run"] = "join"]
    /\ UNCHANGED << otherVars, buffer, packets, latest_keyframe, in_stream,
                    video_in_progress, queue_size, fitted, ipc, cur, nrecv,
                    cancel_pending, sigint, result, localVars >>

\* self.video_thread.join() returns once stream_capture has returned
Join ==
    /\ tpc["run"] = "join"
    /\ ipc = "exit"
    /\ tpc' = [tpc EXCEPT !["run"] = "unsub"]
    /\ UNCHANGED << otherVars, buffer, packets, latest_keyframe, in_stream,
                    video_in_progress, stop_event, queue_size, fitted, ipc,
                    cur, nrecv, cancel_pending, sigint, session_stop_event,
                    result, localVars >>

\* await manager.shutdown() returns; the while test finds stop_event set
Unsubscribed ==
    /\ tpc["run"] = "unsub"
    /\ LoopFree("run")
    /\ tpc' = [tpc EXCEPT !["run"] = "ended"]
    /\ UNCHANGED << otherVars, buffer, packets, latest_keyframe, in_stream,
                    video_in_progress, stop_event, queue_size, fitted, ipc,
                    cur, nrecv, cancel_pending, sigint, session_stop_event,
                    result, localVars >>

EventLoop ==
    \/ \E batch \in Batches : PullMessages(batch)
    \/ SendMessageDone
    \/ SendMessageRaises
    \/ RunSendVideo
    \/ GrabVideo
    \/ GrabSendVideo
    \/ \E t \in Tasks : SleepDone(t)
    \/ \E t \in Tasks, errors \in 0..MaxUnits : WriteClip(t, errors)
    \/ \E t \in Tasks : OpenRaises(t)
    \/ \E t \in Tasks : CloseRaises(t)
    \/ \E t \in Tasks : Release(t)
    \/ \E t \in Tasks : SendVideoDone(t)
    \/ Shutdown
    \/ \E t \in Tasks : Cancelled(t)
    \/ StopStream
    \/ Join
    \/ Unsubscribed

Next == Ingest \/ EventLoop

Spec == Init /\ [][Next]_vars

\* ---- the ingest thread alone, on its first connection --------------------

\* the first connection of stream_capture
FirstConnect(fps) == in_stream = NoRef /\ Connect(fps)

NextRetention ==
    \/ \E fps \in Rates : FirstConnect(fps)
    \/ ConnectFail
    \/ Backoff
    \/ \E key \in BOOLEAN, dur \in Durations :
          Demux(Packet(nrecv + 1, TRUE, key, dur))
    \/ Demux(Packet(nrecv + 1, FALSE, FALSE, 0))
    \/ EvictGet

\* no reconnection, no extraction: the buffer fills from empty on one
\* connection
SpecRetention == Init /\ [][NextRetention]_vars

\* ---- the ingest thread alone, over every stream and until it is stopped --

\* average_rate of the streams a camera may offer, the capacities being
\* 0, 1, 2, 197 and the default; NoRate is drawn by ConnectRateUnknown
CaptureRates == Rates \cup { <<1, 10>>, <<79, 2>>, <<41, 1>> }

\* VideoStream.stop sets stop_event
StopSet ==
    /\ ~stop_event
    /\ stop_event' = TRUE
    /\ UNCHANGED << otherVars, buffer, packets, latest_keyframe, in_stream,
                    video_in_progress, queue_size, fitted, ipc, cur, nrecv,
                    taskVars, localVars >>

\* one step of stream_capture
CaptureStep ==
    \/ \E fps \in CaptureRates : Connect(fps)
    \/ ConnectRateUnknown
    \/ ConnectFail
    \/ CaptureExit
    \/ Backoff
    \/ \E key \in BOOLEAN, dur \in Durations :
          Demux(Packet(nrecv + 1, TRUE, key, dur))
    \/ Demux(Packet(nrecv + 1, FALSE, FALSE, 0))
    \/ EvictGet
    \/ StreamEnd
    \/ DemuxError

NextCapture == CaptureStep \/ StopSet

SpecCapture == Init /\ [][NextCapture]_vars

\* the thread is scheduled, and a call that can return (av.open and
\* rtsp.demux under their timeouts, time.sleep, Queue.get on a queue that is
\* not empty) does return
FairSpecCapture == SpecCapture /\ WF_vars(CaptureStep)

\* ---- the camera sessions side by side -----------------------------------
\* Every CameraInstance.run of the configuration on the one event loop, with
\* main() and the __main__ block; a VideoStream is reduced to its flag, its
\* stop_event and whether its thread runs.

\* bot.rtsp_streams: the cameras whose VideoStream was registered, in order
RtspStreams ==
    SelectSeq(CameraNames, LAMBDA c : cameras[c].rtsp_stream)

\* positions of run at which the task is suspended in an await inside or
\* before the try statement
CamAwaitPcs == { "setup", "start", "poll", "notify", "extract", "send" }
\* positions of run in synchronous code
CamSyncPcs == { "batch", "stopping", "join" }
\* the run task is done: returned, cancelled, or ended by an exception
CamDonePcs == { "ended", "cancelled", "failed" }

\* the event loop is running and no callback occupies it
LoopIdle ==
    /\ process # "exited"
    /\ \A c \in Cams : cameras[c].pc \notin CamSyncPcs
    /\ handler.at # "call"

\* update_xaddrs, create_devicemgmt_service and GetDeviceInformation return
CamSetupDone(c) ==
    /\ LoopIdle
    /\ cameras[c].pc = "setup"
    /\ cameras' = [cameras EXCEPT ![c].pc = "start"]
    /\ UNCHANGED << streamVars, manager, handler, main_task, process,
                    signalled >>

\* manager.start and manager.set_synchronization_point return
CamStartDone(c) ==
    /\ LoopIdle
    /\ cameras[c].pc = "start"
    /\ cameras' = [cameras EXCEPT ![c].pc = "poll"]
    /\ UNCHANGED << streamVars, manager, handler, main_task, process,
                    signalled >>

\* an await before the while loop raises (device unreachable, subscription
\* refused): no try statement encloses it, the task ends with the exception
CamSetupRaises(c) ==
    /\ LoopIdle
    /\ cameras[c].pc \in { "setup", "start" }
    /\ cameras' = [cameras EXCEPT ![c].pc = "failed"]
    /\ UNCHANGED << streamVars, manager, handler, main_task, process,
                    signalled >>

\* PullMessages returns a batch
CamPull(c, batch) ==
    /\ LoopIdle
    /\ cameras[c].pc = "poll"
    /\ cameras' = [cameras EXCEPT ![c].pc = "batch", ![c].messages = batch]
    /\ UNCHANGED << streamVars, manager, handler, main_task, process,
                    signalled >>

\* the for loop over messages.NotificationMessage and the test of mess_tree
CamEvaluate(c) ==
    /\ process # "exited"
    /\ cameras[c].pc = "batch"
    /\ cameras' =
         [cameras EXCEPT
            ![c].pc = IF MessTree(cameras[c].messages) = "true"
                      THEN "notify" ELSE "poll",
            ![c].messages = << >>]
    /\ UNCHANGED << streamVars, manager, handler, main_task, process,
                    signalled >>

\* bot.send_message returns: video_snapshot is called if there is a stream;
\* it returns None at once if an extraction is in progress and sets the
\* flag otherwise, so the flag is set afterwards exactly if there is a stream
CamSendMessageDone(c) ==
    /\ LoopIdle
    /\ cameras[c].pc = "notify"
    /\ cameras' =
         [cameras EXCEPT
            ![c].pc = IF ~cameras[c].rtsp_stream THEN "poll"
                      ELSE IF cameras[c].in_progress THEN "send"
                      ELSE "extract",
            ![c].in_progress = cameras[c].rtsp_stream]
    /\ UNCHANGED << streamVars, manager, handler, main_task, process,
                    signalled >>

\* bot.send_message raises: except Exception, the loop goes on
CamSendMessageRaises(c) ==
    /\ LoopIdle
    /\ cameras[c].pc = "notify"
    /\ cameras' = [cameras EXCEPT ![c].pc = "poll"]
    /\ UNCHANGED << streamVars, manager, handler, main_task, process,
                    signalled >>

\* video_snapshot returns
CamExtractDone(c) ==
    /\ LoopIdle
    /\ cameras[c].pc = "extract"
    /\ cameras' = [cameras EXCEPT ![c].pc = "send", ![c].in_progress = FALSE]
    /\ UNCHANGED << streamVars, manager, handler, main_task, process,
                    signalled >>

\* video_snapshot raises after its sleep: the flag stays set
CamExtractRaises(c) ==
    /\ LoopIdle
    /\ cameras[c].pc = "extract"
    /\ cameras' = [cameras EXCEPT ![c].pc = "poll"]
    /\ UNCHANGED << streamVars, manager, handler, main_task, process,
                    signalled >>

\* bot.send_video returns or raises
CamSendVideoDone(c) ==
    /\ LoopIdle
    /\ cameras[c].pc = "send"
    /\ cameras' = [cameras EXCEPT ![c].pc = "poll"]
    /\ UNCHANGED << streamVars, manager, handler, main_task, process,
                    signalled >>

\* task.cancel() on every task that is not done
CancelAll(cams) ==
    [c \in Cams |->
       IF cams[c].pc \in CamDonePcs \cup { "stopping", "join", "unsub" }
       THEN cams[c]
       ELSE [cams[c] EXCEPT !.cancel = TRUE]]

\* SIGINT: shutdown_handler cancels every task of the loop
SignalShutdown ==
    /\ process = "running"
    /\ ~signalled
    /\ signalled' = TRUE
    /\ cameras' = CancelAll(cameras)
    /\ UNCHANGED << streamVars, manager, handler, main_task, process >>

\* CancelledError is thrown into run at its await: before the while loop it
\* leaves run; inside the try statement the handler sets self.stop_event
CamCancelled(c) ==
    /\ LoopIdle
    /\ cameras[c].cancel
    /\ cameras[c].pc \in CamAwaitPcs
    /\ cameras' =
         [cameras EXCEPT
            ![c].cancel = FALSE,
            ![c].pc = IF cameras[c].pc \in { "setup", "start" }
                      THEN "cancelled" ELSE "stopping",
            ![c].stop_event = cameras[c].pc \notin { "setup", "start" }]
    /\ UNCHANGED << streamVars, manager, handler, main_task, process,
                    signalled >>

\* if self.rtsp_stream is not None: self.rtsp_stream.stop(), up to the join
CamStopStream(c) ==
    /\ process # "exited"
    /\ cameras[c].pc = "stopping"
    /\ cameras' =
         [cameras EXCEPT
            ![c].stream_stop = cameras[c].rtsp_stream,
            ![c].pc = IF cameras[c].rtsp_stream THEN "join" ELSE "unsub"]
    /\ UNCHANGED << streamVars, manager, handler, main_task, process,
                    signalled >>

\* stream_capture of the camera's VideoStream returns
CamThreadExit(c) ==
    /\ cameras[c].thread = "running"
    /\ cameras[c].stream_stop
    /\ cameras' = [cameras EXCEPT ![c].thread = "exited"]
    /\ UNCHANGED << streamVars, manager, handler, main_task, process,
                    signalled >>

\* video_thread.join() returns
CamJoin(c) ==
    /\ process # "exited"
    /\ cameras[c].pc = "join"
    /\ cameras[c].thread = "exited"
    /\ cameras' = [cameras EXCEPT ![c].pc = "unsub"]
    /\ UNCHANGED << streamVars, manager, handler, main_task, process,
                    signalled >>

\* manager.shutdown returns; the while test finds stop_event set
CamUnsubscribed(c) ==
    /\ LoopIdle
    /\ cameras[c].pc = "unsub"
    /\ cameras' = [cameras EXCEPT ![c].pc = "ended"]
    /\ UNCHANGED << streamVars, manager, handler, main_task, process,
                    signalled >>

\* asyncio.gather(*tasks) passes the exception of a task to main(), which
\* does not catch it; run_until_complete raises it and the finally clause
\* of the __main__ block cancels every task
MainGatherRaises ==
    /\ LoopIdle
    /\ main_task = "gather"
    /\ \E c \in Cams : cameras[c].pc = "failed"
    /\ main_task' = "raised"
    /\ process' = "finally"
    /\ cameras' = CancelAll(cameras)
    /\ UNCHANGED << streamVars, manager, handler, signalled >>

\* main() was cancelled: gather ends when every task has ended, main()
\* catches CancelledError and returns
MainCancelled ==
    /\ LoopIdle
    /\ main_task = "gather"
    /\ signalled
    /\ \A c \in Cams : cameras[c].pc \in CamDonePcs
    /\ main_task' = "returned"
    /\ process' = "finally"
    /\ UNCHANGED << streamVars, manager, cameras, handler, signalled >>

\* the gather of the finally clause ends, loop.close()
ProcessExit ==
    /\ LoopIdle
    /\ process = "finally"
    /\ \A c \in Cams : cameras[c].pc \in CamDonePcs
    /\ process' = "exited"
    /\ UNCHANGED << streamVars, manager, cameras, handler, main_task,
                    signalled >>

\* the for loop of grabimage and grabvideo goes on to the next stream, the
\* handler returns after the last
NextStream(h) ==
    IF h.i < Len(RtspStreams)
    THEN [h EXCEPT !.i = h.i + 1, !.at = "call"]
    ELSE NoHandler

\* a /grabimage or /grabvideo command arrives: the handler enters its for
\* loop over self.rtsp_streams
BotCommand(cmd) ==
    /\ LoopIdle
    /\ process = "running"
    /\ handler = NoHandler
    /\ Len(RtspStreams) > 0
    /\ handler' = [ cmd |-> cmd, i |-> 1, at |-> "call" ]
    /\ UNCHANGED << streamVars, manager, cameras, main_task, process,
                    signalled >>

\* grabimage: stream.image_snapshot() returns an image, or None when the
\* stream has no keyframe yet
BotImageSnapshot(image) ==
    /\ process # "exited"
    /\ handler.cmd = "grabimage"
    /\ handler.at = "call"
    /\ cameras[RtspStreams[handler.i]].rtsp_stream
    /\ handler' = IF image THEN [handler EXCEPT !.at = "send"]
                  ELSE NextStream(handler)
    /\ UNCHANGED << streamVars, manager, cameras, main_task, process,
                    signalled >>

\* grabvideo: stream.video_snapshot() returns None at once if an extraction
\* is in progress, else sets the flag and sleeps
BotVideoSnapshot ==
    /\ process # "exited"
    /\ handler.cmd = "grabvideo"
    /\ handler.at = "call"
    /\ LET c == RtspStreams[handler.i] IN
         IF cameras[c].in_progress
         THEN /\ handler' = NextStream(handler)
              /\ UNCHANGED cameras
         ELSE /\ handler' = [handler EXCEPT !.at = "sleep"]
              /\ cameras' = [cameras EXCEPT ![c].in_progress = TRUE]
    /\ UNCHANGED << streamVars, manager, main_task, process, signalled >>

\* grabvideo: video_snapshot returns a clip
BotExtractDone ==
    /\ LoopIdle
    /\ handler.at = "sleep"
    /\ handler' = [handler EXCEPT !.at = "send"]
    /\ cameras' =
         [cameras EXCEPT ![RtspStreams[handler.i]].in_progress = FALSE]
    /\ UNCHANGED << streamVars, manager, main_task, process, signalled >>

\* send_photo or send_video returns
BotSendDone ==
    /\ LoopIdle
    /\ handler.at = "send"
    /\ handler' = NextStream(handler)
    /\ UNCHANGED << streamVars, manager, cameras, main_task, process,
                    signalled >>

NextCameras ==
    \/ \E c \in Cams : CamSetupDone(c)
    \/ \E c \in Cams : CamStartDone(c)
    \/ \E c \in Cams : CamSetupRaises(c)
    \/ \E c \in Cams, batch \in Batches : CamPull(c, batch)
    \/ \E c \in Cams : CamEvaluate(c)
    \/ \E c \in Cams : CamSendMessageDone(c)
    \/ \E c \in Cams : CamSendMessageRaises(c)
    \/ \E c \in Cams : CamExtractDone(c)
    \/ \E c \in Cams : CamExtractRaises(c)
    \/ \E c \in Cams : CamSendVideoDone(c)
    \/ SignalShutdown
    \/ \E c \in Cams : CamCancelled(c)
    \/ \E c \in Cams : CamStopStream(c)
    \/ \E c \in Cams : CamThreadExit(c)
    \/ \E c \in Cams : CamJoin(c)
    \/ \E c \in Cams : CamUnsubscribed(c)
    \/ MainGatherRaises
    \/ MainCancelled
    \/ ProcessExit
    \/ \E cmd \in { "grabimage", "grabvideo" } : BotCommand(cmd)
    \/ \E image \in BOOLEAN : BotImageSnapshot(image)
    \/ BotVideoSnapshot
    \/ BotExtractDone
    \/ BotSendDone

\* the cameras of every configuration: each with or without media
InitAnyConfig ==
    /\ InitStream
    /\ InitCameras([Cams -> BOOLEAN])
    /\ InitManager({ SubscriptionTime })

SpecCameras == InitAnyConfig /\ [][NextCameras]_vars

\* ---- the subscription manager of one session -----------------------------
\* CustomPullPointManager._start against one device. The device's methods
\* get_next_termination_time and has_broken_relative_time and the later
\* renewals belong to the onvif library that _start calls and inherits
\* from; they are modelled as spec.md describes them (4.1).

\* device.get_next_termination_time(self._interval): a relative duration,
\* or the absolute time now + interval once the device is marked
GetNextTerminationTime(broken_relative, now) ==
    IF broken_relative
    THEN << "absolute", now + SubscriptionTime >>
    ELSE << "relative", SubscriptionTime >>

\* the device's response to a request made at now: it honours an absolute
\* termination time and grants its lease on a relative one
Response(lease, time, now) ==
    [ CurrentTime |-> now,
      TerminationTime |-> IF time[1] = "absolute" THEN time[2]
                          ELSE now + lease ]

Abs(x) == IF x < 0 THEN 0 - x ELSE x

\* device.has_broken_relative_time: the granted interval is less than half
\* the interval asked for
HasBrokenRelativeTime(interval, current, termination) ==
    2 * Abs(termination - current) < interval

\* a request for a lease, as the device receives it
Request(op, phase, m) ==
    [ op |-> op, phase |-> phase,
      time |-> GetNextTerminationTime(m.broken_relative, m.now) ]

\* create_events_service and CreatePullPointSubscription return
MgrCreate ==
    /\ manager.pc = "unstarted"
    /\ LET req == Request("create", "start", manager) IN
         manager' =
           [manager EXCEPT
              !.pc = "created",
              !.requests = Append(@, req),
              !.result = Response(manager.lease, req.time, manager.now)]
    /\ UNCHANGED << streamVars, camVars >>

\* MgrCheck that never renews
MgrCheckNoRenew ==
    /\ manager.pc = "created"
    /\ manager' =
         [manager EXCEPT
            !.broken_relative =
               HasBrokenRelativeTime(SubscriptionTime,
                                     manager.result.CurrentTime,
                                     manager.result.TerminationTime),
            !.pc = "started"]
    /\ UNCHANGED << streamVars, camVars >>

\* create_subscription_service and create_pullpoint_service return; then
\* if device.has_broken_relative_time(...): self._subscription.Renew(...)
\* is called, else _start returns
MgrCheck ==
    /\ manager.pc = "created"
    /\ LET broken ==
             HasBrokenRelativeTime(SubscriptionTime,
                                   manager.result.CurrentTime,
                                   manager.result.TerminationTime)
           marked == [manager EXCEPT !.broken_relative = broken]
       IN  manager' =
             IF broken
             THEN [marked EXCEPT
                     !.pc = "renew",
                     !.requests = Append(@, Request("renew", "start", marked))]
             ELSE [marked EXCEPT !.pc = "started"]
    /\ UNCHANGED << streamVars, camVars >>

\* Renew returns; renewal_call_at is computed and _start returns
MgrRenewDone ==
    /\ manager.pc = "renew"
    /\ manager' =
         [manager EXCEPT
            !.pc = "started",
            !.result =
               Response(manager.lease,
                        manager.requests[Len(manager.requests)].time,
                        manager.now)]
    /\ UNCHANGED << streamVars, camVars >>

\* an await of _start raises: the exception leaves manager.start()
MgrRaises ==
    /\ manager.pc \in { "unstarted", "created", "renew" }
    /\ manager' = [manager EXCEPT !.pc = "failed"]
    /\ UNCHANGED << streamVars, camVars >>

\* a scheduled renewal of the started subscription
MgrRenewLater ==
    /\ manager.pc = "started"
    /\ Len(SelectSeq(manager.requests, LAMBDA r : r.phase = "later"))
         < MaxRenewals
    /\ LET req == Request("renew", "later", manager) IN
         manager' =
           [manager EXCEPT
              !.requests = Append(@, req),
              !.result = Response(manager.lease, req.time, manager.now)]
    /\ UNCHANGED << streamVars, camVars >>

\* manager.shutdown()
MgrShutdown ==
    /\ manager.pc = "started"
    /\ manager' = [manager EXCEPT !.pc = "shutdown"]
    /\ UNCHANGED << streamVars, camVars >>

\* a minute passes
Tick ==
    /\ manager.now < MaxNow
    /\ manager' = [manager EXCEPT !.now = @ + 1]
    /\ UNCHANGED << streamVars, camVars >>

NextManager ==
    \/ MgrCreate
    \/ MgrCheck
    \/ MgrRenewDone
    \/ MgrRaises
    \/ MgrRenewLater
    \/ MgrShutdown
    \/ Tick

\* the manager against every kind of device
InitAnyDevice ==
    /\ InitStream
    /\ InitCameras({ [c \in Cams |-> FALSE] })
    /\ InitManager(Leases)

SpecManager == InitAnyDevice /\ [][NextManager]_vars

\* ---- properties -----------------------------------------------------------

\* the calls of video_snapshot that have set the flag and not yet returned
InFlight == { t \in Tasks : tpc[t] \in SnapshotPcs }

\* C1: at most one call of video_snapshot has set video_in_progress and not
\* yet returned, whatever the interleaving of run and grabvideo
C1_SingleFlight == Cardinality(InFlight) <= 1

\* C1 witness: grabvideo is in flight and run, triggered by motion, was
\* turned away
C1_Witness ==
    /\ tpc["grabvideo"] \in SnapshotPcs
    /\ tpc["run"] = "send"
    /\ result["run"] = "none"

\* C2: when a call that set the flag ends, on any path, the flag is false
C2_ReleasedOnEveryExit ==
    [][\A t \in Tasks :
         (tpc[t] \in SnapshotPcs /\ tpc'[t] \notin SnapshotPcs)
             => video_in_progress' = FALSE]_vars

\* a step in which task t calls video_snapshot
CallStep(t) ==
    /\ tpc[t] \in { "notify", "idle" }
    /\ tpc'[t] \in { "sleep", "ret" }

\* C3: a call made while the flag is set returns none at once: no sleep, no
\* snapshot of the buffer, no timestamp rewritten, the flag left set
C3_BusyCallReturnsNone ==
    [][\A t \in Tasks :
         (CallStep(t) /\ video_in_progress)
             => /\ tpc'[t] = "ret"
                /\ result'[t] = "none"
                /\ video_in_progress'
                /\ snap' = snap
                /\ muxed' = muxed
                /\ packets' = packets
                /\ buffer' = buffer]_vars

\* C3 witness: run holds the flag in its post-trigger delay and a grabvideo
\* call has just returned none
C3_Witness ==
    /\ tpc["run"] = "sleep"
    /\ video_in_progress
    /\ tpc["grabvideo"] = "ret"
    /\ result["grabvideo"] = "none"

\* a step that removes the head of the ring buffer
Removed ==
    /\ buffer # << >>
    /\ \/ buffer' = << >>
       \/ Head(buffer') # Head(buffer)

\* C4: no unit is removed from the ring buffer in a state in which
\* video_in_progress is true
C4_NoEvictionInProgress == [][video_in_progress => ~Removed]_vars

\* list holds no key unit (an empty list holds none)
NoKeyUnit(list) ==
    \A i \in 1..Len(list) : ~packets[list[i]].is_keyframe

\* C5: video_snapshot returns None when the buffer is empty or the snapshot
\* holds no key unit
C5_NoneWithoutKeyUnit ==
    [][\A t \in Tasks :
         (tpc[t] = "release" /\ tpc'[t] = "ret" /\ NoKeyUnit(snap[t]))
             => result'[t] = "none"]_vars

\* the units of list from its first key unit on
FromFirstKey(list) ==
    IF NoKeyUnit(list) THEN << >>
    ELSE LET k == CHOOSE i \in 1..Len(list) :
                    /\ packets[list[i]].is_keyframe
                    /\ \A j \in 1..(i - 1) : ~packets[list[j]].is_keyframe
         IN SubSeq(list, k, Len(list))

RECURSIVE SumDur(_, _)
SumDur(out, k) ==
    IF k = 0 THEN 0 ELSE SumDur(out, k - 1) + packets[out[k].ref].duration

\* C7: the k-th unit written has pts = the sum of the durations of the
\* units written 1..k, dts = pts, and the timestamps do not decrease
C7_TimestampsAccumulate ==
    \A t \in Tasks :
        tpc[t] = "release" =>
            \A k \in 1..Len(muxed[t]) :
                /\ muxed[t][k].pts = SumDur(muxed[t], k)
                /\ muxed[t][k].dts = muxed[t][k].pts
                /\ k > 1 => muxed[t][k - 1].pts <= muxed[t][k].pts

\* C7 witness: two units written, the second later than the first, which
\* itself is not at zero
C7_Witness ==
    \E t \in Tasks :
        /\ tpc[t] = "release"
        /\ Len(muxed[t]) >= 2
        /\ muxed[t][1].pts > 0
        /\ muxed[t][2].pts > muxed[t][1].pts

\* C8: the ring buffer holds the most recent usable units received, each
\* once, in the order received, without a gap
C8_FifoSuffix ==
    /\ Len(buffer) <= Len(packets)
    /\ buffer = [i \in 1..Len(buffer) |-> Len(packets) - Len(buffer) + i]
    /\ \A i \in 1..Len(buffer) : packets[buffer[i]].dts # NoneTs

\* C8 witness: the oldest unit was evicted and the buffer holds a unit an
\* extraction has rewritten
C8_Witness ==
    /\ Len(buffer) >= 1
    /\ buffer[1] > 1
    /\ packets[buffer[1]].stream = "out"

\* C9 as stated: whenever the flag is clear the buffer is within capacity
C9_BoundedWhenFlagClear ==
    ~video_in_progress => Len(buffer) <= queue_size

\* C9 amended: whenever the ingest loop's latest eviction pass on the current
\* connection ended with the flag clear, the buffer is within capacity
C9_BoundedAfterEviction ==
    fitted => Len(buffer) <= queue_size

\* C9 witness: the flag is clear and the buffer is at capacity after an
\* eviction
C9_Witness ==
    /\ fitted
    /\ ~video_in_progress
    /\ Len(buffer) = queue_size
    /\ buffer[1] > 1

\* the smaller of two numbers
Min(a, b) == IF a <= b THEN a ELSE b

\* C10: between two units, after n usable units were ingested from empty on
\* a connection of capacity C with no extraction, the buffer holds the
\* min(n, C) most recent of them
C10_DropOldestRetention ==
    (ipc = "demux") =>
        /\ Len(buffer) = Min(Len(packets), queue_size)
        /\ buffer = [i \in 1..Len(buffer) |-> Len(packets) - Len(buffer) + i]

\* the capacity rule: five seconds of units at the advertised rate when the
\* rate is known, positive and below the plausibility limit, the fallback
\* otherwise
CapacityRule(rate) ==
    IF rate # NoRate /\ rate[1] > 0 /\ rate[1] < MaxPlausibleFps * rate[2]
    THEN (RetentionSeconds * rate[1]) \div rate[2]
    ELSE DefaultQueueSize

\* the ingest thread is on an open connection
Connected == ipc \in { "demux", "get" }

\* C11: every step in which a connection is opened and its rate read (the
\* thread leaves the while test with the rate it read) leaves the thread on
\* the open connection with the capacity the rule gives for that rate, the
\* fallback when the rate is unknown; and the capacity stays that of the
\* rule while units of the connection are ingested.
C11_CapacityRule ==
    /\ [][(ipc = "top" /\ (ipc' = "demux" \/ average_rate' # average_rate))
            => (ipc' = "demux"
                /\ queue_size' = CapacityRule(average_rate'))]_vars
    /\ [](Connected => queue_size = CapacityRule(average_rate))

\* the batch holds a notification whose motion value is "true"
HasTrue(batch) == \E i \in 1..Len(batch) : batch[i] = "true"

\* C12: on a media-enabled session, whenever run has read a batch that
\* PullMessages returned, it goes on to the notification and the extraction
\* if and only if some notification of the batch, at any position, has the
\* motion value "true".
C12_TrueAnywhereTriggers ==
    [][\A c \in Cams :
         (/\ ~cameras[c].nomedia
          /\ cameras[c].pc = "batch"
          /\ cameras'[c].pc # "batch")
         => (cameras'[c].pc = "notify" <=> HasTrue(cameras[c].messages))]_vars

\* the teardown of a camera session is complete: the event-wait stop signal
\* is set, the ingest loop (if any) was told to stop and its thread was
\* joined, and run went through manager.shutdown to its end
TornDown(c) ==
    /\ cameras[c].stop_event
    /\ cameras[c].rtsp_stream =>
         (cameras[c].stream_stop /\ cameras[c].thread = "exited")
    /\ cameras[c].pc = "ended"

\* C13: a camera session that ended after cancellation was delivered to its
\* run task, at whatever await of run, has signalled the ingest loop to
\* stop, set the event-wait stop signal, gone through the unsubscribe and
\* joined the ingest thread.
C13_CancelTearsDown ==
    \A c \in Cams : cameras[c].pc \in { "cancelled", "ended" } => TornDown(c)

\* cancellation was requested of the camera's run task
CancelRequested(c) ==
    \/ cameras[c].cancel
    \/ cameras[c].pc \in { "cancelled", "stopping", "join", "unsub", "ended" }

\* C14: as long as no external shutdown signal arrived, whatever faults the
\* camera sessions met, no session was cancelled and the process goes on.
C14_FaultsStayLocal ==
    ~signalled =>
        /\ process = "running"
        /\ \A c \in Cams : ~CancelRequested(c)

\* C18: a camera configured with nomedia has no ingest thread, no call of
\* video_snapshot in progress on its behalf, and no command handler is at a
\* snapshot of a stream of that camera.
C18_NoMediaNeverCaptures ==
    \A c \in Cams :
        cameras[c].nomedia =>
            /\ cameras[c].thread = "none"
            /\ ~cameras[c].in_progress
            /\ cameras[c].pc \notin { "extract", "send" }
            /\ handler # NoHandler => RtspStreams[handler.i] # c

\* a no-media camera is sending the notification of a motion event while a
\* grabvideo command is in its extraction
C18_Witness ==
    \E c \in Cams :
        /\ cameras[c].nomedia
        /\ cameras[c].pc = "notify"
        /\ handler.cmd = "grabvideo"
        /\ handler.at = "sleep"

\* C15: every step that ends a connection or an attempt to open one while
\* stop is not signalled (the open is refused, the read times out, the
\* stream ends) takes the ingest loop to its backoff, so that the next
\* attempt to open, which is made from the while test, follows a backoff.
C15_BackoffBeforeRetry ==
    [][(/\ ~stop_event
        /\ \/ Connected /\ ~Connected'
           \/ ipc = "top" /\ ipc' \notin { "top", "demux" })
       => ipc' = "backoff"]_vars

\* C16: once stop_event is set the ingest loop eventually returns, from
\* whatever position it is in.
C16_StopTerminates == stop_event ~> (ipc = "exit")

\* the demuxer yields a unit that has no decode timestamp
UnusableArrives ==
    /\ ipc = "demux"
    /\ nrecv' = nrecv + 1
    /\ packets' = packets
    /\ ipc' = "get" => cur'.dts = NoneTs

\* the loop body is handling a unit that has no decode timestamp
UnusableInHand == ipc = "get" /\ cur.dts = NoneTs

\* C20: no step in which a unit without decode timestamp arrives or is being
\* handled changes the ring buffer or latest_keyframe.
C20_DiscardHasNoEffect ==
    [][(UnusableArrives \/ UnusableInHand)
       => (buffer' = buffer /\ latest_keyframe' = latest_keyframe)]_vars

\* the objects the ring buffer and latest_keyframe refer to
Held(q, key) ==
    { q[i] : i \in 1..Len(q) } \cup (IF key = NoRef THEN { } ELSE { key })

\* C19: the synchronous part of video_snapshot (the copy of the queue, the
\* timestamp rewrite and the mux) leaves the ring buffer holding the same
\* units in the same order, every one of them and the latest keyframe with
\* the dts, pts and stream binding the ingest loop stored.
C19_ExtractionLeavesBuffer ==
    [][\A t \in Tasks :
         (tpc[t] = "write" /\ tpc'[t] # "write")
         => /\ buffer' = buffer
            /\ latest_keyframe' = latest_keyframe
            /\ \A ref \in Held(buffer, latest_keyframe) :
                 packets'[ref] = packets[ref]]_vars

\* the requests of the given phase that are renewals
Renewals(phase) ==
    SelectSeq(manager.requests,
              LAMBDA r : r.op = "renew" /\ r.phase = phase)

\* has_broken_relative_time found the device broken on the creation
\* response
DetectedBroken == manager.broken_relative

\* C17: when _start has returned, it has issued exactly one Renew, with an
\* absolute termination time, if the creation response made the device
\* detected as broken, and every later renewal is absolute too; it has
\* issued no Renew if the device was not detected as broken.
C17_BrokenRelativeTime ==
    manager.pc \in { "started", "shutdown" } =>
        IF DetectedBroken
        THEN /\ Len(Renewals("start")) = 1
             /\ Renewals("start")[1].time[1] = "absolute"
             /\ \A i \in 1..Len(Renewals("later")) :
                  Renewals("later")[i].time[1] = "absolute"
        ELSE Len(Renewals("start")) = 0

\* a device detected as broken was renewed once by _start and as often as
\* the bound allows afterwards
C17_Witness ==
    /\ manager.pc = "started"
    /\ DetectedBroken
    /\ Len(Renewals("start")) = 1
    /\ Len(Renewals("later")) = MaxRenewals

\* C21: whenever the camera session is in its call of send_video, what it
\* passes is a clip that video_snapshot returned, never None.
C21_RunSendsOnlyClips ==
    tpc["run"] = "send" => result["run"] = "clip"

====
